---- MODULE Spec2Model ----
(***************************************************************************)
(* Model of the personal expense tracker (src/App.tsx, types in            *)
(* src/unnamed/part_000): the App component's state, its effects, the two  *)
(* handlers handleProcessInput / handleAddExpense with their awaits as     *)
(* separate steps, and the monthlySummaryData aggregation.                 *)
(*                                                                         *)
(* Text is a sequence of one-character strings, so that slice, startsWith, *)
(* trim and the date regular expression are computed, not assumed.         *)
(* Amounts are IEEE-754 doubles, held exactly as a sign and a magnitude    *)
(* counted in units of 2^-56 (two limbs of 30 bits); every sum is rounded  *)
(* to 53 significant bits, ties to even, as the hardware does.             *)
(***************************************************************************)
EXTENDS Integers, Sequences, FiniteSets, TLC

(***************************************************************************)
(* Category taxonomy (enum ExpenseCategory, in declaration order, which is *)
(* the order of Object.values).                                            *)
(***************************************************************************)
CategoryOrder ==
  << "ALIMENTACAO", "TRANSPORTE", "LAZER", "CONTAS_FIXAS", "SAUDE",
     "INVESTIMENTOS", "EDUCACAO", "COMPRAS", "OUTROS" >>

ExpenseCategory == { CategoryOrder[i] : i \in 1..Len(CategoryOrder) }

QueryType == { "RESUMO_GERAL", "TOTAL_CATEGORIA", "DESCONHECIDO", "REGISTRO_DESPESA" }

(***************************************************************************)
(* Text helpers.                                                           *)
(***************************************************************************)
DigitChars == << "0", "1", "2", "3", "4", "5", "6", "7", "8", "9" >>

IsDigit(c) == \E i \in 1..10 : DigitChars[i] = c

DigitVal(c) == (CHOOSE i \in 1..10 : DigitChars[i] = c) - 1

\* String.prototype.slice(0, n)
slice0(s, n) == SubSeq(s, 1, IF Len(s) < n THEN Len(s) ELSE n)

\* String.prototype.startsWith
startsWith(s, prefix) ==
  /\ Len(prefix) <= Len(s)
  /\ SubSeq(s, 1, Len(prefix)) = prefix

\* String.prototype.trim, for the white space the inputs hold (the blank)
RECURSIVE trimStart(_)
trimStart(s) ==
  IF s = << >> THEN << >>
  ELSE IF Head(s) = " " THEN trimStart(Tail(s)) ELSE s

RECURSIVE trimEnd(_)
trimEnd(s) ==
  IF s = << >> THEN << >>
  ELSE IF s[Len(s)] = " " THEN trimEnd(SubSeq(s, 1, Len(s) - 1)) ELSE s

trim(s) == trimEnd(trimStart(s))

\* parseInt of a run of digits
RECURSIVE parseDigits(_)
parseDigits(s) ==
  IF s = << >> THEN 0
  ELSE 10 * parseDigits(SubSeq(s, 1, Len(s) - 1)) + DigitVal(s[Len(s)])

\* lexicographic order of two digit/dash texts by character code
\* ("-" sorts before every digit); localeCompare agrees on such texts
CharRank(c) == IF IsDigit(c) THEN DigitVal(c) + 1 ELSE 0

RECURSIVE TextLess(_, _)
TextLess(a, b) ==
  IF b = << >> THEN FALSE
  ELSE IF a = << >> THEN TRUE
  ELSE IF CharRank(Head(a)) # CharRank(Head(b))
       THEN CharRank(Head(a)) < CharRank(Head(b))
       ELSE TextLess(Tail(a), Tail(b))

(***************************************************************************)
(* Dates.  DateRegex is /^\d{4}-\d{2}-\d{2}$/.  getTime is                 *)
(* new Date(text).getTime() in days (the millisecond value divided by      *)
(* 86 400 000, which keeps the sign of every difference); << >> is NaN.    *)
(* A well-formed text whose day exceeds its month's length but not 31 is   *)
(* where engines differ: V8 rolls the day over into the next month, the    *)
(* others answer Invalid Date.  `lenient` says which engine runs the page. *)
(***************************************************************************)
DateRegex(s) ==
  /\ Len(s) = 10
  /\ \A i \in {1, 2, 3, 4, 6, 7, 9, 10} : IsDigit(s[i])
  /\ s[5] = "-"
  /\ s[8] = "-"

IsLeap(y) == (y % 4 = 0 /\ y % 100 # 0) \/ y % 400 = 0

DaysInMonth(y, m) ==
  IF m = 2 THEN (IF IsLeap(y) THEN 29 ELSE 28)
  ELSE IF m \in {4, 6, 9, 11} THEN 30 ELSE 31

RECURSIVE DaysBeforeMonth(_, _)
DaysBeforeMonth(y, m) ==
  IF m <= 1 THEN 0 ELSE DaysBeforeMonth(y, m - 1) + DaysInMonth(y, m - 1)

\* days from 1970-01-01 to January 1st of year y (\div rounds down)
DaysBeforeYear(y) ==
  365 * (y - 1970) + ((y - 1969) \div 4) - ((y - 1901) \div 100) + ((y - 1601) \div 400)

DateYear(s) == parseDigits(SubSeq(s, 1, 4))
DateMonth(s) == parseDigits(SubSeq(s, 6, 7))
DateDay(s) == parseDigits(SubSeq(s, 9, 10))

\* a date of the calendar: the month exists and the day exists in it
IsRealDate(s) ==
  /\ DateRegex(s)
  /\ DateMonth(s) \in 1..12
  /\ DateDay(s) \in 1..DaysInMonth(DateYear(s), DateMonth(s))

getTime(s, lenient) ==
  IF ~DateRegex(s) THEN << >>
  ELSE IF DateMonth(s) \notin 1..12 \/ DateDay(s) \notin 1..31
       THEN << >>
  ELSE IF DateDay(s) > DaysInMonth(DateYear(s), DateMonth(s)) /\ ~lenient
       THEN << >>
  ELSE << DaysBeforeYear(DateYear(s)) + DaysBeforeMonth(DateYear(s), DateMonth(s))
          + DateDay(s) - 1 >>

isNaN(t) == t = << >>

(***************************************************************************)
(* Doubles.                                                                *)
(***************************************************************************)
Limb == 2^30

Dbl(neg, hi, lo) == [neg |-> neg, hi |-> hi, lo |-> lo]

Zero == Dbl(FALSE, 0, 0)

IsZero(d) == d.hi = 0 /\ d.lo = 0

RECURSIVE BitLen(_)
BitLen(n) == IF n = 0 THEN 0 ELSE 1 + BitLen(n \div 2)

\* round a magnitude to 53 significant bits, ties to even
RoundMag(hi, lo) ==
  LET len == IF hi = 0 THEN BitLen(lo) ELSE 30 + BitLen(hi)
      s == len - 53
  IN IF s <= 0 THEN << hi, lo >>
     ELSE LET p == 2^s
              r == lo % p
              q == lo \div p
              up == r > p \div 2 \/ (r = p \div 2 /\ q % 2 = 1)
              lo2 == IF up THEN lo - r + p ELSE lo - r
          IN IF lo2 >= Limb THEN << hi + 1, lo2 - Limb >> ELSE << hi, lo2 >>

MagLess(a, b) == a.hi < b.hi \/ (a.hi = b.hi /\ a.lo < b.lo)

MagAdd(a, b) ==
  LET lo == a.lo + b.lo
  IN IF lo >= Limb THEN << a.hi + b.hi + 1, lo - Limb >> ELSE << a.hi + b.hi, lo >>

\* a - b for magnitudes with b <= a
MagSub(a, b) ==
  IF a.lo >= b.lo THEN << a.hi - b.hi, a.lo - b.lo >>
  ELSE << a.hi - b.hi - 1, a.lo + Limb - b.lo >>

\* the + of two doubles
DAdd(a, b) ==
  IF a.neg = b.neg
  THEN LET m == MagAdd(a, b)
           r == RoundMag(m[1], m[2])
       IN Dbl(a.neg /\ ~(r[1] = 0 /\ r[2] = 0), r[1], r[2])
  ELSE IF MagLess(a, b)
       THEN LET m == MagSub(b, a)
                r == RoundMag(m[1], m[2])
            IN Dbl(b.neg, r[1], r[2])
  ELSE IF MagLess(b, a)
       THEN LET m == MagSub(a, b)
                r == RoundMag(m[1], m[2])
            IN Dbl(a.neg, r[1], r[2])
  ELSE Zero

\* a > b for doubles
DGreater(a, b) ==
  IF IsZero(a) /\ IsZero(b) THEN FALSE
  ELSE IF a.neg # b.neg THEN b.neg
  ELSE IF a.neg THEN MagLess(a, b) ELSE MagLess(b, a)

(***************************************************************************)
(* Bounds and the inputs the environment supplies.                         *)
(***************************************************************************)
\* the interpreter classifies a submission as an expense registration only
\* while the store holds fewer records than this
MaxExpenses == 2

\* the text the user types into the input box (the box starts, and is left
\* after a success, empty)
Texts == { << " ", "a" >> }

\* dates the extraction call returns: two real dates in two months, a
\* well-formed text that names no day of the calendar but whose day is at
\* most 31, a well-formed text with no such month, and an ill-formed text
DateMay == << "2", "0", "2", "4", "-", "0", "5", "-", "1", "0" >>
DateJun == << "2", "0", "2", "4", "-", "0", "6", "-", "0", "2" >>
DateFeb30 == << "2", "0", "2", "4", "-", "0", "2", "-", "3", "0" >>
Date1340 == << "2", "0", "2", "4", "-", "1", "3", "-", "4", "0" >>
DateSlashes == << "1", "5", "/", "0", "7", "/", "2", "0", "2", "4" >>

Dates == { DateMay, DateJun, DateFeb30, Date1340, DateSlashes }

\* the doubles 0.1, 0.4 and -0.1
D01 == Dbl(FALSE, 6710886, 429496730)
D04 == Dbl(FALSE, 26843545, 644245096)
DNeg01 == Dbl(TRUE, 6710886, 429496730)

\* amounts the extraction call returns
Valores == { D01, DNeg01 }

Descricao == << "d" >>

\* a value or null: << v >> or << >>
Some(v) == << v >>
Null == << >>

\* ParsedExpenseData | null, as parseExpenseInputWithGemini resolves
ParseResults ==
  { Null }
  \cup { Some([valor |-> Some(v), descricao |-> Some(Descricao), data |-> Some(d)]) :
           v \in Valores, d \in Dates }
  \cup { Some([valor |-> Null, descricao |-> Some(Descricao), data |-> Some(DateMay)]),
         Some([valor |-> Some(D01), descricao |-> Null, data |-> Some(DateMay)]),
         Some([valor |-> Some(D01), descricao |-> Some(Descricao), data |-> Null]) }

\* CategorizedData | null, as categorizeExpenseWithGemini resolves
CategorizeResults ==
  { Null, Some([categoria |-> Null]), Some([categoria |-> Some("ALIMENTACAO")]) }

\* ParsedQuery | null, as interpretUserQueryWithGemini resolves
QueryResults ==
  { Null }
  \cup { Some([tipoQuery |-> t, categoria |-> Null]) : t \in QueryType }
  \cup { Some([tipoQuery |-> "TOTAL_CATEGORIA", categoria |-> Some(c)]) :
           c \in { "ALIMENTACAO", "OUTROS" } }

\* getCurrentMonthYearGMT3(): the clock stands in June 2024
getCurrentMonthYearGMT3 == << "2", "0", "2", "4", "-", "0", "6" >>

\* the id of a record is a time stamp followed by a random number; no
\* handler reads it, and one opaque text stands for it
OpaqueId == << "i", "d" >>

Expense(amount, description, date, category, originalInput) ==
  [ id |-> OpaqueId, amount |-> amount, description |-> description,
    date |-> date, category |-> category, originalInput |-> originalInput ]

(***************************************************************************)
(* Sorting: Array.prototype.sort with the comparator                       *)
(* (a, b) => new Date(a.date).getTime() - new Date(b.date).getTime().      *)
(* The sort is stable; a NaN comparison counts as 0.                       *)
(***************************************************************************)
\* the sign of the comparator's result
compareDates(a, b, lenient) ==
  LET ta == getTime(a.date, lenient)
      tb == getTime(b.date, lenient)
  IN IF isNaN(ta) \/ isNaN(tb) THEN 0
     ELSE IF ta[1] < tb[1] THEN -1
     ELSE IF ta[1] > tb[1] THEN 1 ELSE 0

\* x put after the last element that does not compare greater than it
RECURSIVE InsertSorted(_, _, _)
InsertSorted(s, x, lenient) ==
  IF s = << >> THEN << x >>
  ELSE IF compareDates(s[Len(s)], x, lenient) > 0
       THEN Append(InsertSorted(SubSeq(s, 1, Len(s) - 1), x, lenient), s[Len(s)])
       ELSE Append(s, x)

RECURSIVE sortByDate(_, _)
sortByDate(s, lenient) ==
  IF s = << >> THEN << >>
  ELSE InsertSorted(sortByDate(SubSeq(s, 1, Len(s) - 1), lenient), s[Len(s)], lenient)

(***************************************************************************)
(* Derived values of a render.                                             *)
(***************************************************************************)
\* availableMonths, as a set; the memo sorts it ascending
availableMonths(exps) ==
  { slice0(exps[i].date, 7) : i \in 1..Len(exps) } \cup { getCurrentMonthYearGMT3 }

\* the last element of the sorted availableMonths
lastAvailableMonth(exps) ==
  CHOOSE m \in availableMonths(exps) :
    \A n \in availableMonths(exps) : ~TextLess(m, n)

\* the effect on [availableMonths, selectedMonth]: the month it leaves selected
selectedMonthEffect(exps, sel) ==
  IF sel \notin availableMonths(exps) THEN lastAvailableMonth(exps) ELSE sel

\* formatMonthYear: new Date(year, month - 1) rendered as month and year
formatMonthYear(monthYear) ==
  LET year == parseDigits(SubSeq(monthYear, 1, 4))
      month == parseDigits(SubSeq(monthYear, 6, 7))
  IN IF month >= 1
     THEN [ month |-> ((month - 1) % 12) + 1, year |-> year + ((month - 1) \div 12) ]
     ELSE [ month |-> 12, year |-> year - 1 ]

expensesForSelectedMonth(exps, sel) ==
  SelectSeq(exps, LAMBDA e : startsWith(e.date, sel))

\* the forEach of monthlySummaryData: the accumulator after the first n
\* expenses of the month
RECURSIVE summaryScan(_, _)
summaryScan(month, n) ==
  IF n = 0
  THEN [ summary |-> [c \in ExpenseCategory |-> Zero],
         grandTotal |-> Zero,
         highestSpending |-> Null ]
  ELSE LET acc == summaryScan(month, n - 1)
           exp == month[n]
           total == DAdd(acc.summary[exp.category], exp.amount)
       IN [ summary |-> [acc.summary EXCEPT ![exp.category] = total],
            grandTotal |-> DAdd(acc.grandTotal, exp.amount),
            highestSpending |->
              IF acc.highestSpending = Null
                 \/ DGreater(total, acc.highestSpending[1].amount)
              THEN Some([category |-> exp.category, amount |-> total])
              ELSE acc.highestSpending ]

\* monthlySummaryData: MonthlySummaryData | null
monthlySummaryData(exps, sel) ==
  LET month == expensesForSelectedMonth(exps, sel)
      acc == summaryScan(month, Len(month))
  IN IF IsZero(acc.grandTotal) /\ \A c \in ExpenseCategory : IsZero(acc.summary[c])
     THEN Null
     ELSE Some([ categoryTotals |-> acc.summary,
                 grandTotal |-> acc.grandTotal,
                 highestSpending |-> acc.highestSpending,
                 monthLabel |-> formatMonthYear(sel) ])

(***************************************************************************)
(* State.                                                                  *)
(***************************************************************************)
VARIABLES
  phase,          \* "constructed" (before the mount effects), "running", "crashed"
  lenient,        \* the engine's Date parser rolls an overlong day over
  apiKey,         \* process.env.API_KEY is set
  storage,        \* localStorage's entry 'expenses'
  expenses,       \* useState<Expense[]>
  userInput,      \* useState<string>
  isLoading,      \* useState<boolean>
  toast,          \* useState<{message, type} | null>
  apiKeyExists,   \* useState<boolean>
  selectedMonth,  \* useState<string>
  reqs            \* the handleProcessInput calls waiting on an interpreter call

vars ==
  << phase, lenient, apiKey, storage, expenses, userInput, isLoading, toast,
     apiKeyExists, selectedMonth, reqs >>

\* localStorage.getItem('expenses'): null, a text JSON.parse rejects, or the
\* JSON of an array of records
StorageMissing == [kind |-> "missing", list |-> << >>]
StorageCorrupt == [kind |-> "corrupt", list |-> << >>]

\* JSON.stringify of an expense list, as stored
JSONstringify(exps) == [kind |-> "array", list |-> exps]

\* a list an earlier version of the page left unsorted
StoredUnsorted ==
  << Expense(D01, Descricao, DateJun, "OUTROS", << " ", "a" >>),
     Expense(D01, Descricao, DateMay, "ALIMENTACAO", << " ", "a" >>) >>

\* toasts: a message is held as its kind; the category total's message is
\* held with the category, the total and the month it shows
Toast(kind, type, category, total, month) ==
  [kind |-> kind, type |-> type, category |-> category, total |-> total, month |-> month]

NoToast == Toast("none", "none", "", Zero, << >>)

PlainToast(kind, type) == Toast(kind, type, "", Zero, << >>)

NoData == [valor |-> Zero, descricao |-> << >>, data |-> << >>]

\* what a handler's closure holds of the render it was created in
Render == [userInput |-> userInput, selectedMonth |-> selectedMonth, expenses |-> expenses]

RemoveAt(s, i) == SubSeq(s, 1, i - 1) \o SubSeq(s, i + 1, Len(s))

Init ==
  /\ phase = "constructed"
  /\ lenient \in BOOLEAN
  /\ apiKey \in BOOLEAN
  /\ storage \in { StorageMissing, StorageCorrupt, JSONstringify(StoredUnsorted) }
  /\ expenses = << >>
  /\ userInput = << >>
  /\ isLoading = FALSE
  /\ toast = NoToast
  /\ apiKeyExists = TRUE
  /\ selectedMonth = getCurrentMonthYearGMT3
  /\ reqs = << >>

(***************************************************************************)
(* Mount: the effects of the first commit and of the render they cause.    *)
(***************************************************************************)
\* the load effect's list: JSON.parse(storedExpenses).sort(...)
loadExpenses(stored) == sortByDate(stored.list, lenient)

Mount ==
  /\ phase = "constructed"
  /\ apiKeyExists' = apiKey
  /\ toast' = IF apiKey THEN NoToast ELSE PlainToast("noApiKey", "error")
  /\ \/ /\ storage.kind = "missing"
        /\ phase' = "running"
        /\ expenses' = << >>
        /\ storage' = JSONstringify(<< >>)
     \/ /\ storage.kind = "array"
        /\ phase' = "running"
        /\ expenses' = loadExpenses(storage)
        /\ storage' = JSONstringify(expenses')
     \/ \* JSON.parse throws inside the effect: the tree is unmounted; the
        \* persist effect of the same commit may still have stored '[]'
        /\ storage.kind = "corrupt"
        /\ phase' = "crashed"
        /\ expenses' = << >>
        /\ storage' \in { storage, JSONstringify(<< >>) }
  /\ selectedMonth' = selectedMonthEffect(expenses', selectedMonth)
  /\ UNCHANGED << lenient, apiKey, userInput, isLoading, reqs >>

\* the page is loaded again: the component is constructed anew over the
\* storage the last run left
Reload ==
  /\ phase \in { "running", "crashed" }
  /\ phase' = "constructed"
  /\ expenses' = << >>
  /\ userInput' = << >>
  /\ isLoading' = FALSE
  /\ toast' = NoToast
  /\ apiKeyExists' = TRUE
  /\ selectedMonth' = getCurrentMonthYearGMT3
  /\ reqs' = << >>
  /\ UNCHANGED << lenient, apiKey, storage >>

(***************************************************************************)
(* The controls.                                                           *)
(***************************************************************************)
inputDisabled == isLoading \/ ~apiKeyExists

\* a button that stays enabled while a request is pending
buttonDisabledIgnoringLoading == trim(userInput) = << >> \/ ~apiKeyExists

buttonDisabled == isLoading \/ trim(userInput) = << >> \/ ~apiKeyExists

\* onChange of the input
TypeInput(text) ==
  /\ phase = "running"
  /\ ~inputDisabled
  /\ userInput' = text
  /\ UNCHANGED << phase, lenient, apiKey, storage, expenses, isLoading, toast,
                  apiKeyExists, selectedMonth, reqs >>

\* handleProcessInput up to its first await
handleProcessInput ==
  IF trim(userInput) = << >> \/ ~apiKeyExists
  THEN /\ toast' = IF ~apiKeyExists THEN PlainToast("noApiKeyConfigured", "error")
                   ELSE PlainToast("emptyInput", "error")
       /\ UNCHANGED << isLoading, reqs >>
  ELSE /\ isLoading' = TRUE
       /\ reqs' = Append(reqs, [pc |-> "interpret", render |-> Render, parsedData |-> NoData])
       /\ UNCHANGED toast

\* onClick of the button
ClickProcessar ==
  /\ phase = "running"
  /\ ~buttonDisabled
  /\ handleProcessInput
  /\ UNCHANGED << phase, lenient, apiKey, storage, expenses, userInput,
                  apiKeyExists, selectedMonth >>

\* onKeyPress of the input, key Enter
PressEnter ==
  /\ phase = "running"
  /\ ~inputDisabled
  /\ ~isLoading
  /\ handleProcessInput
  /\ UNCHANGED << phase, lenient, apiKey, storage, expenses, userInput,
                  apiKeyExists, selectedMonth >>

\* onClick of a month button
ClickMonth(monthStr) ==
  /\ phase = "running"
  /\ monthStr \in availableMonths(expenses)
  /\ selectedMonth' = selectedMonthEffect(expenses, monthStr)
  /\ UNCHANGED << phase, lenient, apiKey, storage, expenses, userInput, isLoading,
                  toast, apiKeyExists, reqs >>

\* the toast's timer
DismissToast ==
  /\ phase = "running"
  /\ toast # NoToast
  /\ toast' = NoToast
  /\ UNCHANGED << phase, lenient, apiKey, storage, expenses, userInput, isLoading,
                  apiKeyExists, selectedMonth, reqs >>

(***************************************************************************)
(* handleProcessInput after interpretUserQueryWithGemini settles.          *)
(***************************************************************************)
\* services/aiService: a call of the interpreter runs to completion or to
\* failure; a failed call is a promise that rejects
interpreterCallsMayFail == TRUE

\* a handler that reports the month's grand total for every category
categoryTotalOfWholeMonth(render, category) ==
  LET data == monthlySummaryData(render.expenses, render.selectedMonth)
  IN IF data = Null THEN Zero ELSE data[1].grandTotal

\* monthlySummaryData?.categoryTotals[category] || 0, in the closure's render
categoryTotalOf(render, category) ==
  LET data == monthlySummaryData(render.expenses, render.selectedMonth)
  IN IF data = Null THEN Zero ELSE data[1].categoryTotals[category]

InterpretRejects(i) ==
  /\ interpreterCallsMayFail
  /\ phase = "running"
  /\ i \in 1..Len(reqs)
  /\ reqs[i].pc = "interpret"
  /\ reqs' = RemoveAt(reqs, i)
  /\ UNCHANGED << phase, lenient, apiKey, storage, expenses, userInput, isLoading,
                  toast, apiKeyExists, selectedMonth >>

InterpretResolves(i, q) ==
  /\ phase = "running"
  /\ i \in 1..Len(reqs)
  /\ reqs[i].pc = "interpret"
  /\ LET r == reqs[i].render
         tipo == IF q = Null THEN "undefined" ELSE q[1].tipoQuery
     IN IF tipo = "REGISTRO_DESPESA"
        THEN /\ Len(expenses) < MaxExpenses
             /\ reqs' = [reqs EXCEPT ![i].pc = "parse"]
             /\ UNCHANGED << toast, userInput, isLoading >>
        ELSE IF tipo = "RESUMO_GERAL"
        THEN /\ toast' = PlainToast("summaryShown", "info")
             /\ userInput' = << >>
             /\ isLoading' = FALSE
             /\ reqs' = RemoveAt(reqs, i)
        ELSE IF tipo = "TOTAL_CATEGORIA" /\ q[1].categoria # Null
        THEN /\ toast' = Toast("categoryTotal", "info", q[1].categoria[1],
                               categoryTotalOf(r, q[1].categoria[1]), r.selectedMonth)
             /\ userInput' = << >>
             /\ isLoading' = FALSE
             /\ reqs' = RemoveAt(reqs, i)
        ELSE /\ toast' = PlainToast("unknownCommand", "error")
             /\ isLoading' = FALSE
             /\ reqs' = RemoveAt(reqs, i)
             /\ UNCHANGED userInput
  /\ UNCHANGED << phase, lenient, apiKey, storage, expenses, apiKeyExists, selectedMonth >>

(***************************************************************************)
(* handleProcessInput after parseExpenseInputWithGemini settles.           *)
(***************************************************************************)
ParseRejects(i) ==
  /\ interpreterCallsMayFail
  /\ phase = "running"
  /\ i \in 1..Len(reqs)
  /\ reqs[i].pc = "parse"
  /\ reqs' = RemoveAt(reqs, i)
  /\ UNCHANGED << phase, lenient, apiKey, storage, expenses, userInput, isLoading,
                  toast, apiKeyExists, selectedMonth >>

ParseResolves(i, p) ==
  /\ phase = "running"
  /\ i \in 1..Len(reqs)
  /\ reqs[i].pc = "parse"
  /\ IF p # Null /\ p[1].valor # Null /\ p[1].descricao # Null /\ p[1].data # Null
     THEN \* handleAddExpense up to its await
          /\ isLoading' = TRUE
          /\ reqs' = [reqs EXCEPT ![i].pc = "categorize",
                                  ![i].parsedData = [valor |-> p[1].valor[1],
                                                     descricao |-> p[1].descricao[1],
                                                     data |-> p[1].data[1]]]
          /\ UNCHANGED toast
     ELSE /\ toast' = PlainToast("detailsNotUnderstood", "error")
          /\ isLoading' = FALSE
          /\ reqs' = RemoveAt(reqs, i)
  /\ UNCHANGED << phase, lenient, apiKey, storage, expenses, userInput,
                  apiKeyExists, selectedMonth >>

(***************************************************************************)
(* handleAddExpense after categorizeExpenseWithGemini settles.             *)
(***************************************************************************)
\* the test that lets a date through
dateAccepted(finalDate) == DateRegex(finalDate) /\ ~isNaN(getTime(finalDate, lenient))

\* an add that appends without sorting
addWithoutSort(prev, newExpense) == Append(prev, newExpense)

\* setExpenses(prev => [...prev, newExpense].sort(...))
addAndSort(prev, newExpense) == sortByDate(Append(prev, newExpense), lenient)

\* the closure's selectedMonth decides whether the month is switched
monthAfterAdd(render, expenseMonth) ==
  IF render.selectedMonth # expenseMonth THEN expenseMonth ELSE selectedMonth

\* the catch and finally of handleAddExpense
CategorizeRejects(i) ==
  /\ interpreterCallsMayFail
  /\ phase = "running"
  /\ i \in 1..Len(reqs)
  /\ reqs[i].pc = "categorize"
  /\ toast' = PlainToast("processingError", "error")
  /\ isLoading' = FALSE
  /\ reqs' = RemoveAt(reqs, i)
  /\ UNCHANGED << phase, lenient, apiKey, storage, expenses, userInput,
                  apiKeyExists, selectedMonth >>

CategorizeResolves(i, categorized) ==
  /\ phase = "running"
  /\ i \in 1..Len(reqs)
  /\ reqs[i].pc = "categorize"
  /\ LET r == reqs[i].render
         parsedData == reqs[i].parsedData
         category == IF categorized = Null \/ categorized[1].categoria = Null
                     THEN "OUTROS" ELSE categorized[1].categoria[1]
         finalDate == parsedData.data
         newExpense == Expense(parsedData.valor, parsedData.descricao, finalDate,
                               category, r.userInput)
     IN IF ~dateAccepted(finalDate)
        THEN /\ toast' = PlainToast("invalidDate", "error")
             /\ UNCHANGED << expenses, storage, userInput, selectedMonth >>
        ELSE /\ expenses' = addAndSort(expenses, newExpense)
             /\ storage' = JSONstringify(expenses')
             /\ toast' = PlainToast("expenseRegistered", "success")
             /\ userInput' = << >>
             /\ selectedMonth' =
                  selectedMonthEffect(expenses', monthAfterAdd(r, slice0(newExpense.date, 7)))
  /\ isLoading' = FALSE
  /\ reqs' = RemoveAt(reqs, i)
  /\ UNCHANGED << phase, lenient, apiKey, apiKeyExists >>

(***************************************************************************)
(* The specification.                                                      *)
(***************************************************************************)
Next ==
  \/ Mount
  \/ Reload
  \/ \E text \in Texts : TypeInput(text)
  \/ ClickProcessar
  \/ PressEnter
  \/ \E m \in availableMonths(expenses) : ClickMonth(m)
  \/ DismissToast
  \/ \E i \in 1..Len(reqs) : InterpretRejects(i)
  \/ \E i \in 1..Len(reqs), q \in QueryResults : InterpretResolves(i, q)
  \/ \E i \in 1..Len(reqs) : ParseRejects(i)
  \/ \E i \in 1..Len(reqs), p \in ParseResults : ParseResolves(i, p)
  \/ \E i \in 1..Len(reqs) : CategorizeRejects(i)
  \/ \E i \in 1..Len(reqs), c \in CategorizeResults : CategorizeResolves(i, c)

Spec == Init /\ [][Next]_vars

(***************************************************************************)
(* The aggregator alone: monthlySummaryData over every sorted list of up   *)
(* to MaxAggLen records with positive amounts, each month button clicked.  *)
(***************************************************************************)
MaxAggLen == 3

AggRecords ==
  { Expense(v, Descricao, d, c, << " ", "a" >>) :
      v \in { D01, D04 }, d \in { DateMay, DateJun }, c \in { "ALIMENTACAO", "OUTROS" } }

AggLists ==
  { l \in UNION { [1..n -> AggRecords] : n \in 0..MaxAggLen } : l = sortByDate(l, FALSE) }

InitAgg ==
  /\ phase = "running"
  /\ lenient = FALSE
  /\ apiKey = TRUE
  /\ expenses \in AggLists
  /\ storage = JSONstringify(expenses)
  /\ userInput = << >>
  /\ isLoading = FALSE
  /\ toast = NoToast
  /\ apiKeyExists = TRUE
  /\ selectedMonth = getCurrentMonthYearGMT3
  /\ reqs = << >>

NextAgg == \E m \in availableMonths(expenses) : ClickMonth(m)

SpecAgg == InitAgg /\ [][NextAgg]_vars

(***************************************************************************)
(* Properties.                                                             *)
(***************************************************************************)
\* calendar order of two dates, read off the texts
DateBefore(a, b) == TextLess(a, b)

SortedByDate(list) ==
  \A i, j \in 1..Len(list) : i < j => ~DateBefore(list[j].date, list[i].date)

RealDates(list) == \A i \in 1..Len(list) : IsRealDate(list[i].date)

\* the sum of the amounts of a list, left to right
RECURSIVE sumAmounts(_)
sumAmounts(list) ==
  IF list = << >> THEN Zero
  ELSE DAdd(sumAmounts(SubSeq(list, 1, Len(list) - 1)), list[Len(list)].amount)

monthTotal(exps, month) ==
  sumAmounts(SelectSeq(exps, LAMBDA e : startsWith(e.date, month)))

categoryMonthTotal(exps, category, month) ==
  sumAmounts(SelectSeq(exps, LAMBDA e : e.category = category /\ startsWith(e.date, month)))

\* the sum of a summary's category totals, in the order of Object.values
RECURSIVE sumTotals(_, _)
sumTotals(totals, n) ==
  IF n = 0 THEN Zero ELSE DAdd(sumTotals(totals, n - 1), totals[CategoryOrder[n]])

\* request i settles in this step
Settles(i) == phase = "running" /\ phase' = "running" /\ reqs' = RemoveAt(reqs, i)

\* request i ends in this step with the answer to a query
Answers(i) == Settles(i) /\ reqs[i].pc = "interpret" /\ isLoading /\ ~isLoading'

\* C1: while the page runs, the expense list of valid records is sorted by
\* date ascending, and the list stored under the key is that same list;
\* in particular after every add.
C1_SortedAfterEveryAdd ==
  phase = "running" =>
    /\ storage = JSONstringify(expenses)
    /\ RealDates(expenses) => SortedByDate(expenses)

\* an add has just put a second date into the list
C1_Witness ==
  /\ phase = "running"
  /\ toast.kind = "expenseRegistered"
  /\ Len(expenses) >= 2
  /\ RealDates(expenses)
  /\ expenses[1].date # expenses[Len(expenses)].date
  /\ storage.list = expenses

\* C2: when the date the extraction returned is no date of the calendar,
\* the add-expense flow ends with an error message, creates no record and
\* leaves the list and the storage as they were.
C2_InvalidDateRejected ==
  [][\A i \in 1..Len(reqs) :
       (Settles(i) /\ reqs[i].pc = "categorize" /\ ~IsRealDate(reqs[i].parsedData.data))
         => /\ expenses' = expenses
            /\ storage' = storage
            /\ toast'.kind \in { "invalidDate", "processingError" }]_vars

\* C3: every record of the list has an amount greater than zero.
C3_AmountsPositive ==
  \A i \in 1..Len(expenses) : DGreater(expenses[i].amount, Zero)

\* C4: the category totals of a computed summary add up to its grand total.
C4_TotalsSumToGrandTotal ==
  LET data == monthlySummaryData(expenses, selectedMonth)
  IN data # Null =>
       sumTotals(data[1].categoryTotals, Len(CategoryOrder)) = data[1].grandTotal

\* C5: highestSpending of a computed summary names a category whose final
\* total no other total exceeds, and carries that final total.
C5_HighestIsFinalMaximum ==
  LET data == monthlySummaryData(expenses, selectedMonth)
  IN (data # Null /\ data[1].highestSpending # Null) =>
       LET h == data[1].highestSpending[1]
       IN /\ h.amount = data[1].categoryTotals[h.category]
          /\ \A c \in ExpenseCategory : ~DGreater(data[1].categoryTotals[c], h.amount)

\* C6: when the amounts of the selected month add up to zero, no summary
\* is reported.
C6_ZeroTotalNoSummary ==
  IsZero(monthTotal(expenses, selectedMonth))
    => monthlySummaryData(expenses, selectedMonth) = Null

\* C7: when a request ends by creating a record of a month other than the
\* one selected at that moment, that record's month becomes the selected one.
C7_SwitchesToNewMonth ==
  [][\A i \in 1..Len(reqs) :
       (/\ Settles(i)
        /\ reqs[i].pc = "categorize"
        /\ Len(expenses') = Len(expenses) + 1
        /\ selectedMonth # slice0(reqs[i].parsedData.data, 7))
         => selectedMonth' = slice0(reqs[i].parsedData.data, 7)]_vars

\* C8: with the key missing or holding unparsable data, the mount leaves
\* the page running with an empty list.
C8_LoadNeverFatal ==
  [][(phase = "constructed" /\ storage.kind \in { "missing", "corrupt" } /\ phase' # phase)
       => (phase' = "running" /\ expenses' = << >>)]_vars

\* C9: at most one request is in flight, and the loading flag is set while
\* it is (the flag is what disables the button and the Enter key).
C9_OneRequestInFlight ==
  /\ Len(reqs) <= 1
  /\ Len(reqs) = 1 => isLoading

\* a request waits on its categorization while the box still holds a text
C9_Witness ==
  /\ Len(reqs) = 1
  /\ reqs[1].pc = "categorize"
  /\ isLoading
  /\ trim(userInput) # << >>
  /\ apiKeyExists

\* C10 as stated: the reported total is the category's total in the month
\* selected when the answer arrives, and the store is left as it was.
C10_TotalOfSelectedMonth ==
  [][\A i \in 1..Len(reqs) :
       (Answers(i) /\ toast'.kind = "categoryTotal")
         => /\ toast'.total = categoryMonthTotal(expenses, toast'.category, selectedMonth)
            /\ expenses' = expenses
            /\ storage' = storage]_vars

\* C10, amended: the reported total is the category's total in the month
\* that was selected when the request was submitted, which is the month the
\* message names, and the store is left as it was.
C10_TotalOfSubmittedMonth ==
  [][\A i \in 1..Len(reqs) :
       (Answers(i) /\ toast'.kind = "categoryTotal")
         => /\ toast'.month = reqs[i].render.selectedMonth
            /\ toast'.total =
                 categoryMonthTotal(expenses, toast'.category, reqs[i].render.selectedMonth)
            /\ expenses' = expenses
            /\ storage' = storage]_vars

\* a total other than zero is reported for a month that is no longer the
\* selected one, with other categories present in that month
C10_Witness ==
  /\ phase = "running"
  /\ toast.kind = "categoryTotal"
  /\ ~IsZero(toast.total)
  /\ toast.month # selectedMonth
  /\ toast.total = categoryMonthTotal(expenses, toast.category, toast.month)
  /\ toast.total # monthTotal(expenses, toast.month)

\* the largest of a summary's final category totals
maxTotal(totals) ==
  CHOOSE t \in { totals[c] : c \in ExpenseCategory } :
    \A c \in ExpenseCategory : ~DGreater(totals[c], t)

\* the steps of the scan of a month's expenses at which the running total
\* of the step's category has the value t
stepsReaching(month, t) ==
  { i \in 1..Len(month) : summaryScan(month, i).summary[month[i].category] = t }

\* C11: when several categories end the scan of the selected month with the
\* same largest total, highestSpending names the category whose running
\* total was the first to reach that value during the scan.
C11_TieGoesToFirstReached ==
  LET data == monthlySummaryData(expenses, selectedMonth)
      month == expensesForSelectedMonth(expenses, selectedMonth)
  IN data # Null =>
       LET top == maxTotal(data[1].categoryTotals)
           tied == { c \in ExpenseCategory : data[1].categoryTotals[c] = top }
           steps == stepsReaching(month, top)
       IN Cardinality(tied) >= 2 =>
            /\ data[1].highestSpending # Null
            /\ steps # { }
            /\ data[1].highestSpending[1].category
                 = month[CHOOSE i \in steps : \A j \in steps : i <= j].category

\* C12: whatever the outcome of the interpreter calls, failure included, a
\* request ends with the loading flag cleared, a notification shown, and
\* the store unchanged unless a record was registered; and whenever no
\* request is pending the page is not loading, so the user can submit again.
C12_EveryOutcomeClearsLoading ==
  [][ /\ \A i \in 1..Len(reqs) :
           Settles(i) =>
             /\ ~isLoading'
             /\ toast' # NoToast
             /\ (expenses' = expenses \/ toast'.kind = "expenseRegistered")
      /\ (phase' = "running" /\ reqs' = << >>) => ~isLoading' ]_vars

====
